---- MODULE Spec2Model ----
(***************************************************************************)
(* InteractionClient (webhook middleware, gateway entry, handle) and       *)
(* CommandInteraction.reply, modelled on the single-threaded JavaScript    *)
(* event loop: macrotasks (I/O completions, timers) run only when the      *)
(* microtask queue is empty; promise continuations are microtasks, FIFO.   *)
(* Two interactions are in flight: they share nothing but the microtask    *)
(* queue, so two exhibit every interference one can suffer from another.   *)
(***************************************************************************)
EXTENDS Integers, Sequences, FiniteSets, TLC

\* ---------------------------------------------------------------- bounds
\* reply() calls made in one run, over all interactions
MaxReplies == 2
\* children of one container option, and options of one command
MaxWidth == 2

\* ------------------------------------------------------------- constants
TimeoutMs == 250

Ids == {1, 2}
\* The message data of the n-th reply() on interaction i: opaque, distinct per call.
Payload(i, n) == <<"P", i, n>>

PING == "PING"
APPLICATION_COMMAND == "APPLICATION_COMMAND"
UNKNOWN_TYPE == "UNKNOWN_TYPE"
InteractionTypes == {PING, APPLICATION_COMMAND, UNKNOWN_TYPE}

PONG == "PONG"
CHANNEL_MESSAGE_WITH_SOURCE == "CHANNEL_MESSAGE_WITH_SOURCE"
DEFERRED_CHANNEL_MESSAGE_WITH_SOURCE == "DEFERRED_CHANNEL_MESSAGE_WITH_SOURCE"

\* JavaScript undefined, and the envelopes handle() builds.
Undefined == [undefined |-> TRUE]
PongEnvelope == [type |-> PONG]
DeferredEnvelope == [type |-> DEFERRED_CHANNEL_MESSAGE_WITH_SOURCE]
MessageEnvelope(resolved) == [type |-> CHANNEL_MESSAGE_WITH_SOURCE, data |-> resolved.data]

\* The value of apiMessage.resolveFiles(): { data, files }.
Resolved(p, f) == [data |-> p, files |-> f]

\* ---------------------------------------------------------- the request
PublicKey == "pk"
OtherKey == "pk2"
Timestamp == "ts"
\* A detached signature is the triple (signed message, key); the header may be absent.
NoHeader == [absent |-> TRUE]
Signature(msg, key) == [msg |-> msg, key |-> key]
Concat(a, b) == <<a, b>>

\* The raw bodies a request can carry: text that is not JSON, or the JSON text of a payload.
Data(i, t, o) ==
  [type |-> t, id |-> i, token |-> <<"token", i>>, application_id |-> "app", hasOptions |-> o]
\* data.data.options is absent only on some command payloads.
Datas(i) ==
  { Data(i, t, TRUE) : t \in InteractionTypes } \cup { Data(i, APPLICATION_COMMAND, FALSE) }
NotJSON == [notjson |-> TRUE]
Bodies(i) == {NotJSON} \cup { [json |-> d] : d \in Datas(i) }
CommandBody(i) == [json |-> Data(i, APPLICATION_COMMAND, TRUE)]
\* Every body correctly signed; a command body also with a missing header, a signature
\* under another key, and a signature over the body without the timestamp.
Signatures(i, body) ==
  { Signature(Concat(Timestamp, body), PublicKey) } \cup
  IF body = CommandBody(i)
    THEN { NoHeader,
           Signature(Concat(Timestamp, body), OtherKey),
           Signature(Concat("", body), PublicKey) }
    ELSE {}

\* sodium.methods.verify(signature, message, publicKey)
Verify(sig, msg, key) == sig = Signature(msg, key)

\* JSON.parse: throws on text that is not JSON.
JSONParses(body) == "json" \in DOMAIN body
JSONparse(body) == body.json

\* JSON.stringify: undefined for undefined, else the text of the object's own fields.
JSONstringify(v) ==
  IF v = Undefined THEN Undefined
  ELSE [text |-> <<"type", v.type>> \o (IF "data" \in DOMAIN v THEN <<"data", v.data>> ELSE <<>>)]

\* res.end(chunk): the body sent; no chunk (or undefined) sends an empty body.
EmptyBody == [text |-> <<>>]
End(chunk) == IF chunk = Undefined THEN EmptyBody ELSE chunk

\* ------------------------------------------------------------ the promise
PendingPromise == [state |-> "pending", value |-> Undefined]
\* A resolve function that settles again a promise already settled.
ResolveOverwrites(p, v) == [state |-> "resolved", value |-> v]
\* Calling a promise's resolve function: settles a pending promise, no-op otherwise.
Resolve(p, v) == IF p.state = "pending" THEN [state |-> "resolved", value |-> v] ELSE p

\* ------------------------------------------------------------- Interaction
NoInteraction == [none |-> TRUE]
\* Interactions that all reply through the syncHandle of the first handle() call.
InteractionObjectSharedHandle(i) ==
  [applicationID |-> <<"this.applicationID", i>>, token |-> <<"this.token", i>>,
   syncHandle |-> CHOOSE j \in Ids : \A k \in Ids : j <= k]
\* The CommandInteraction built for request i: its fields this.applicationID and
\* this.token (set by super(client, data)) are kept symbolic, and its syncHandle is
\* the one of request i.
InteractionObject(i) ==
  [applicationID |-> <<"this.applicationID", i>>, token |-> <<"this.token", i>>, syncHandle |-> i]
\* CommandInteraction constructor: data.data.options.map(map) throws when options is absent.
ConstructorThrows(data) == ~data.hasOptions

\* ------------------------------------------------- the option tree resolver
\* ApplicationCommandOptionType: a two-way enum, NAME -> code and code -> NAME.
OptionTypeNames ==
  <<"SUB_COMMAND", "SUB_COMMAND_GROUP", "STRING", "INTEGER", "BOOLEAN", "USER", "CHANNEL", "ROLE">>
TypeCode(name) == CHOOSE k \in 1..Len(OptionTypeNames) : OptionTypeNames[k] = name
TypeName(code) == OptionTypeNames[code]
\* A code this version does not know.
UnknownTypeCode == Len(OptionTypeNames) + 1

Null == [null |-> TRUE]
Absent == [absent |-> TRUE]
\* A sub-table of data.data.resolved: entries keyed by identifier.
Table(entries) == [entries |-> entries]
\* table[key]: undefined when the key is missing.
Lookup(table, key) ==
  IF \E e \in table.entries : e[1] = key
    THEN (CHOOSE e \in table.entries : e[1] = key)[2]
    ELSE Undefined

\* The entity collaborators: managers that resolve a raw payload, and the constructors
\* of standalone entities.
UsersAdd(raw) == [entity |-> "User", raw |-> raw, standalone |-> FALSE]
NewUser(raw) == [entity |-> "User", raw |-> raw, standalone |-> TRUE]
MembersAdd(raw) == [entity |-> "GuildMember", raw |-> raw, user |-> UsersAdd(raw.user)]
ChannelsAdd(raw) == [entity |-> "Channel", raw |-> raw, standalone |-> FALSE]
ChannelCreate(raw, guild) == [entity |-> "Channel", raw |-> raw, standalone |-> TRUE]
RolesAdd(raw) == [entity |-> "Role", raw |-> raw, standalone |-> FALSE]
NewRole(raw) == [entity |-> "Role", raw |-> raw, standalone |-> TRUE]

\* The outcome of an evaluation: a value, or a TypeError thrown.
Threw == [threw |-> TRUE]
Value(v) == [threw |-> FALSE, value |-> v]

\* A container node whose children come out in reverse order.
ContainerNodeReversed(o, children) ==
  [name |-> o.name, type |-> TypeName(o.type),
   options |-> [k \in 1..Len(children) |-> children[Len(children) + 1 - k]]]
\* Lines 38-48: the node of a SUB_COMMAND or SUB_COMMAND_GROUP option.
ContainerNode(o, children) ==
  [name |-> o.name, type |-> TypeName(o.type), options |-> children]

\* Lines 50-66: the node of a STRING, INTEGER or BOOLEAN option.
ScalarNode(o) == [name |-> o.name, type |-> TypeName(o.type), value |-> o.value]

\* A USER case that does not copy the user payload into the member payload.
UserNodeNoMerge(o, rawUser, rawMember, c) ==
  [name |-> o.name, type |-> TypeName(o.type),
   user |-> IF c.users THEN UsersAdd(rawUser) ELSE NewUser(rawUser),
   member |-> IF rawMember # Undefined /\ c.guild THEN MembersAdd(rawMember) ELSE Null]
\* Lines 70-78: the node of a USER option, from resolved.users[o.value] and
\* resolved.members[o.value].
UserNode(o, rawUser, rawMember, c) ==
  LET merged == IF rawMember # Undefined THEN [rawMember EXCEPT !.user = rawUser] ELSE rawMember
  IN [name |-> o.name, type |-> TypeName(o.type),
      user |-> IF c.users THEN UsersAdd(rawUser) ELSE NewUser(rawUser),
      member |-> IF merged # Undefined /\ c.guild THEN MembersAdd(merged) ELSE Null]

\* Lines 81-88: the node of a CHANNEL option.
ChannelNode(o, raw, c) ==
  [name |-> o.name, type |-> TypeName(o.type),
   channel |-> IF c.channels THEN ChannelsAdd(raw) ELSE ChannelCreate(raw, c.guild)]

\* Lines 91-96: the node of a ROLE option.
RoleNode(o, raw, c) ==
  [name |-> o.name, type |-> TypeName(o.type),
   role |-> IF c.guild THEN RolesAdd(raw) ELSE NewRole(raw)]

\* data.data.resolved.<table>[key]: a TypeError when resolved or the table is undefined.
ResolvedEntry(d, table, key) ==
  IF d.resolved = Absent THEN Threw
  ELSE IF d.resolved[table] = Absent THEN Threw
  ELSE Value(Lookup(d.resolved[table], key))

RECURSIVE Map(_, _, _), MapAll(_, _, _)
\* Lines 35-101: map(o), for the payload d = data.data and the client context c.
Map(o, d, c) ==
  CASE o.type \in {TypeCode("SUB_COMMAND"), TypeCode("SUB_COMMAND_GROUP")} ->
         LET children == MapAll(o.options, d, c) IN
           IF children.threw THEN Threw ELSE Value(ContainerNode(o, children.value))
    [] o.type \in {TypeCode("STRING"), TypeCode("INTEGER"), TypeCode("BOOLEAN")} ->
         Value(ScalarNode(o))
    [] o.type = TypeCode("USER") ->
         LET rawUser == ResolvedEntry(d, "users", o.value)
             rawMember == ResolvedEntry(d, "members", o.value)
         IN IF rawUser.threw \/ rawMember.threw THEN Threw
            ELSE Value(UserNode(o, rawUser.value, rawMember.value, c))
    [] o.type = TypeCode("CHANNEL") ->
         LET raw == ResolvedEntry(d, "channels", o.value) IN
           IF raw.threw THEN Threw ELSE Value(ChannelNode(o, raw.value, c))
    [] o.type = TypeCode("ROLE") ->
         LET raw == ResolvedEntry(d, "roles", o.value) IN
           IF raw.threw THEN Threw ELSE Value(RoleNode(o, raw.value, c))
    [] OTHER -> Value(o)
\* options.map(map): the nodes in order; the first TypeError ends it.
MapAll(opts, d, c) ==
  IF opts = <<>> THEN Value(<<>>)
  ELSE LET first == Map(Head(opts), d, c) IN
         IF first.threw THEN Threw
         ELSE LET rest == MapAll(Tail(opts), d, c) IN
                IF rest.threw THEN Threw ELSE Value(<<first.value>> \o rest.value)

\* Line 107: this.options = data.data.options.map(map); a TypeError when options is absent.
ConstructOptions(d, c) == IF d.options = Absent THEN Threw ELSE MapAll(d.options.list, d, c)

\* ---- the payloads the constructor is run on
\* data.data.options when present: the list of raw options.
Options(os) == [list |-> os]
SeqsUpTo(S, n) == UNION { [1..k -> S] : k \in 0..n }
Scalars ==
  { [name |-> "text", type |-> TypeCode("STRING"), value |-> <<"string", "hi">>],
    [name |-> "flag", type |-> TypeCode("BOOLEAN"), value |-> <<"boolean", "true">>] }
SubCommands ==
  { [name |-> "sub", type |-> TypeCode("SUB_COMMAND"), options |-> os] :
      os \in SeqsUpTo(Scalars, MaxWidth) }
SubCommandGroups ==
  { [name |-> "group", type |-> TypeCode("SUB_COMMAND_GROUP"), options |-> os] :
      os \in SeqsUpTo(SubCommands, MaxWidth) }
References ==
  { [name |-> "who", type |-> TypeCode("USER"), value |-> "id1"],
    [name |-> "where", type |-> TypeCode("CHANNEL"), value |-> "id1"],
    [name |-> "which", type |-> TypeCode("ROLE"), value |-> "id1"] }
Unrecognized == { [name |-> "new", type |-> UnknownTypeCode, value |-> <<"string", "x">>] }

RawUser == [id |-> "id1", username |-> "name"]
RawMember == [nick |-> "nick", user |-> Undefined]
RawChannel == [id |-> "id1", kind |-> "text"]
RawRole == [id |-> "id1", name |-> "role"]
Tables(raw) == { Absent, Table({}), Table({<<"id1", raw>>}) }
Resolveds ==
  { Absent } \cup
  { [users |-> u, members |-> m, channels |-> ch, roles |-> r] :
      u \in Tables(RawUser), m \in Tables(RawMember),
      ch \in Tables(RawChannel), r \in Tables(RawRole) }
FullResolved ==
  [users |-> Table({<<"id1", RawUser>>}), members |-> Table({<<"id1", RawMember>>}),
   channels |-> Table({<<"id1", RawChannel>>}), roles |-> Table({<<"id1", RawRole>>})]
\* A webhook-only client, a client with caches outside a guild, and one in a guild.
Clients ==
  { [users |-> FALSE, channels |-> FALSE, guild |-> FALSE],
    [users |-> TRUE, channels |-> TRUE, guild |-> FALSE],
    [users |-> TRUE, channels |-> TRUE, guild |-> TRUE] }
\* Trees of containers and scalars, alone and behind a scalar.
StructuralOptions ==
  { Options(<<o>>) : o \in Scalars \cup SubCommands \cup SubCommandGroups \cup Unrecognized } \cup
  { Options(<<s, o>>) : s \in Scalars, o \in Scalars \cup SubCommands \cup SubCommandGroups } \cup
  { Options(<<>>), Absent }
\* A reference option at the top, behind a scalar, and inside a subcommand.
ReferenceOptions ==
  { Options(<<o>>) : o \in References } \cup
  { Options(<<s, o>>) : s \in Scalars, o \in References } \cup
  { Options(<<[name |-> "sub", type |-> TypeCode("SUB_COMMAND"), options |-> <<o>>]>>) :
      o \in References }
ConstructorInputs ==
  { [d |-> [options |-> os, resolved |-> FullResolved], c |-> c] :
      os \in StructuralOptions, c \in Clients } \cup
  { [d |-> [options |-> os, resolved |-> r], c |-> c] :
      os \in ReferenceOptions, r \in Resolveds, c \in Clients }

VARIABLES
  cpc,          \* per request: position of the transport entry point (middleware / handleFromGateway)
  transport,    \* per request: which transport carried it
  req,          \* per webhook request: the signature header and raw body received
  data,         \* per request: the parsed payload handed to handle()
  hpc,          \* per request: position of handle()
  hresult,      \* per request: the value handle() returned
  timer,        \* per request: the 250 ms timer
  timedOut,     \* per request: the timedOut local of handle()
  promise,      \* per request: directPromise
  interaction,  \* per request: the CommandInteraction constructed
  emitted,      \* per request: number of interactionCreate events emitted
  debugs,       \* per request: number of debug events emitted
  responses,    \* per request: the HTTP responses sent on res
  callbacks,    \* per request: the interaction-callback POSTs issued
  replies,      \* per request: the reply() calls made on the interaction
  followups,    \* per request: the webhook-message POSTs issued
  micro,        \* the microtask queue
  handleCalls,  \* per request: number of calls of handle()
  writes,       \* per request: the calls of directPromise's resolve function, in order
  ctorIn,       \* resolver run: the payload data.data and the client context
  ctorOut       \* resolver run: this.options, or the TypeError thrown

vars == <<cpc, transport, req, data, hpc, hresult, timer, timedOut, promise, interaction,
          emitted, debugs, responses, callbacks, replies, followups, micro, handleCalls, writes>>

optVars == <<ctorIn, ctorOut>>

NoRequest == [norequest |-> TRUE]
NoData == [nodata |-> TRUE]
NoTimer == [state |-> "none"]
NoInput == [noinput |-> TRUE]
NotRun == [notrun |-> TRUE]

InitClient ==
  /\ cpc = [i \in Ids |-> "idle"]
  /\ transport = [i \in Ids |-> "none"]
  /\ req = [i \in Ids |-> NoRequest]
  /\ data = [i \in Ids |-> NoData]
  /\ hpc = [i \in Ids |-> "none"]
  /\ hresult = [i \in Ids |-> Undefined]
  /\ timer = [i \in Ids |-> NoTimer]
  /\ timedOut = [i \in Ids |-> FALSE]
  /\ promise = [i \in Ids |-> PendingPromise]
  /\ interaction = [i \in Ids |-> NoInteraction]
  /\ emitted = [i \in Ids |-> 0]
  /\ debugs = [i \in Ids |-> 0]
  /\ responses = [i \in Ids |-> <<>>]
  /\ callbacks = [i \in Ids |-> <<>>]
  /\ replies = [i \in Ids |-> <<>>]
  /\ followups = [i \in Ids |-> <<>>]
  /\ micro = <<>>
  /\ handleCalls = [i \in Ids |-> 0]
  /\ writes = [i \in Ids |-> <<>>]

Init ==
  /\ InitClient
  /\ ctorIn = NoInput
  /\ ctorOut = NotRun

\* The resolver alone: one CommandInteraction constructed on each payload.
InitOptions ==
  /\ InitClient
  /\ ctorIn \in ConstructorInputs
  /\ ctorOut = NotRun

\* Lines 16-108: new CommandInteraction(client, data, syncHandle) builds this.options.
Construct ==
  /\ ctorIn # NoInput
  /\ ctorOut = NotRun
  /\ ctorOut' = ConstructOptions(ctorIn.d, ctorIn.c)
  /\ UNCHANGED <<ctorIn, vars>>

\* Microtasks: continuations of awaits.
HandleResume(i) == [k |-> "handleResume", i |-> i, n |-> 0]
CallerResume(i) == [k |-> "callerResume", i |-> i, n |-> 0]
ReplyResume(i, n) == [k |-> "replyResume", i |-> i, n |-> n]

RECURSIVE SumLen(_, _)
SumLen(f, S) == IF S = {} THEN 0 ELSE LET x == CHOOSE y \in S : TRUE IN Len(f[x]) + SumLen(f, S \ {x})
\* The number of reply() calls made so far, over all interactions.
TotalReplies == SumLen(replies, Ids)

\* The log entries for the values a writer passed to the resolve function.
Writes(by, n, values) == [k \in 1..Len(values) |-> [by |-> by, n |-> n, value |-> values[k]]]
\* A pending promise has been settled: its awaiter is scheduled.
Settles(before, after) == before.state = "pending" /\ after.state = "resolved"

\* Requests are numbered in order of arrival.
NextToArrive(i) == cpc[i] = "idle" /\ \A j \in Ids : j < i => cpc[j] # "idle"

\* ------------------------------------------------------------------ handle
\* A switch whose PING case falls through to the command case.
SwitchCasePingFallsThrough(d) ==
  CASE d.type = PING -> "command"
    [] d.type = APPLICATION_COMMAND -> "command"
    [] OTHER -> "default"
\* A switch whose default case answers like PING.
SwitchCaseDefaultPongs(d) ==
  CASE d.type = PING -> "ping"
    [] d.type = APPLICATION_COMMAND -> "command"
    [] OTHER -> "ping"
\* switch (data.type): the case taken.
SwitchCase(d) ==
  CASE d.type = PING -> "ping"
    [] d.type = APPLICATION_COMMAND -> "command"
    [] OTHER -> "default"

\* The synchronous part of handle(data), up to its first await or its return.
HandleSync(i, d) ==
  /\ handleCalls' = [handleCalls EXCEPT ![i] = @ + 1]
  /\ data' = [data EXCEPT ![i] = d]
  /\ CASE SwitchCase(d) = "ping" ->
            /\ hresult' = [hresult EXCEPT ![i] = PongEnvelope]
            /\ hpc' = [hpc EXCEPT ![i] = "returned"]
            /\ micro' = Append(micro, CallerResume(i))
            /\ UNCHANGED <<timer, timedOut, promise, interaction, emitted, debugs>>
       [] SwitchCase(d) = "command" ->
            /\ timedOut' = [timedOut EXCEPT ![i] = FALSE]
            /\ promise' = [promise EXCEPT ![i] = PendingPromise]
            /\ timer' = [timer EXCEPT ![i] = [state |-> "armed", delay |-> TimeoutMs]]
            /\ IF ConstructorThrows(d)
                 THEN /\ hpc' = [hpc EXCEPT ![i] = "threw"]
                      /\ micro' = Append(micro, CallerResume(i))
                      /\ UNCHANGED <<interaction, emitted>>
                 ELSE /\ interaction' = [interaction EXCEPT ![i] = InteractionObject(i)]
                      /\ emitted' = [emitted EXCEPT ![i] = @ + 1]
                      /\ hpc' = [hpc EXCEPT ![i] = "awaiting"]
                      /\ micro' = micro
            /\ UNCHANGED <<hresult, debugs>>
       [] OTHER ->
            /\ debugs' = [debugs EXCEPT ![i] = @ + 1]
            /\ hresult' = [hresult EXCEPT ![i] = Undefined]
            /\ hpc' = [hpc EXCEPT ![i] = "returned"]
            /\ micro' = Append(micro, CallerResume(i))
            /\ UNCHANGED <<timer, timedOut, promise, interaction, emitted>>

\* A timer callback that calls r and forgets to set the flag.
TimerCallbackNoFlag(i) ==
  [timedOut |-> timedOut[i], promise |-> Resolve(promise[i], DeferredEnvelope),
   wrote |-> <<DeferredEnvelope>>]
\* A timer callback that does nothing once a reply has resolved the promise.
TimerCallbackGuarded(i) ==
  IF promise[i].state = "pending"
    THEN [timedOut |-> TRUE, promise |-> Resolve(promise[i], DeferredEnvelope),
          wrote |-> <<DeferredEnvelope>>]
    ELSE [timedOut |-> timedOut[i], promise |-> promise[i], wrote |-> <<>>]
\* A timer callback that sets the flag and forgets to call r.
TimerCallbackNoResolve(i) ==
  [timedOut |-> TRUE, promise |-> promise[i], wrote |-> <<>>]
\* The timer callback, lines 154-159: timedOut = true; r({type: DEFERRED...}).
TimerCallback(i) ==
  [timedOut |-> TRUE, promise |-> Resolve(promise[i], DeferredEnvelope), wrote |-> <<DeferredEnvelope>>]

\* The 250 ms timer of interaction i fires.
TimerFire(i) ==
  /\ micro = <<>>
  /\ timer[i].state = "armed"
  /\ timer' = [timer EXCEPT ![i] = [state |-> "fired", delay |-> TimeoutMs]]
  /\ timedOut' = [timedOut EXCEPT ![i] = TimerCallback(i).timedOut]
  /\ promise' = [promise EXCEPT ![i] = TimerCallback(i).promise]
  /\ writes' = [writes EXCEPT ![i] = @ \o Writes("timer", 0, TimerCallback(i).wrote)]
  /\ micro' = IF Settles(promise[i], TimerCallback(i).promise) /\ hpc[i] = "awaiting"
                THEN Append(micro, HandleResume(i)) ELSE micro
  /\ UNCHANGED <<cpc, transport, req, data, hpc, hresult, interaction, emitted, debugs,
                 responses, callbacks, replies, followups, handleCalls>>
  /\ UNCHANGED optVars

\* const r = await directPromise; return r;
HandleReturn ==
  /\ micro # <<>>
  /\ Head(micro).k = "handleResume"
  /\ LET i == Head(micro).i IN
       /\ hresult' = [hresult EXCEPT ![i] = promise[i].value]
       /\ hpc' = [hpc EXCEPT ![i] = "returned"]
       /\ micro' = Append(Tail(micro), CallerResume(i))
  /\ UNCHANGED <<cpc, transport, req, data, timer, timedOut, promise, interaction, emitted,
                 debugs, responses, callbacks, replies, followups, handleCalls, writes>>
  /\ UNCHANGED optVars

\* --------------------------------------------------------------- middleware
\* Lines 200-206: a request arrives; await its body chunks.
MiddlewareStart(i) ==
  /\ micro = <<>>
  /\ NextToArrive(i)
  /\ UNCHANGED req
  /\ transport' = [transport EXCEPT ![i] = "webhook"]
  /\ cpc' = [cpc EXCEPT ![i] = "reading"]
  /\ UNCHANGED <<data, hpc, hresult, timer, timedOut, promise, interaction, emitted, debugs,
                 responses, callbacks, replies, followups, micro, handleCalls, writes>>
  /\ UNCHANGED optVars

\* A middleware that answers a body it cannot parse like a failed verification.
MiddlewarePathCatchesParse(r) ==
  IF r.signature = NoHeader THEN "throw"
  ELSE IF ~Verify(r.signature, Concat(r.timestamp, r.body), PublicKey) THEN "unauthorized"
  ELSE IF ~JSONParses(r.body) THEN "unauthorized"
  ELSE "handle"
\* Lines 213-226: the path the middleware takes once the body is complete.
\* Buffer.from(undefined, 'hex') throws a TypeError; JSON.parse throws a SyntaxError.
MiddlewarePath(r) ==
  IF r.signature = NoHeader THEN "throw"
  ELSE IF ~Verify(r.signature, Concat(r.timestamp, r.body), PublicKey) THEN "unauthorized"
  ELSE IF ~JSONParses(r.body) THEN "throw"
  ELSE "handle"

\* Lines 207-226: the body is complete; verify, parse, call handle.
MiddlewareBody(i) ==
  /\ micro = <<>>
  /\ cpc[i] = "reading"
  /\ \E body \in Bodies(i) : \E s \in Signatures(i, body) :
     LET r == [signature |-> s, timestamp |-> Timestamp, body |-> body] IN
       /\ req' = [req EXCEPT ![i] = r]
       /\ CASE MiddlewarePath(r) = "throw" ->
                 /\ cpc' = [cpc EXCEPT ![i] = "rejected"]
                 /\ UNCHANGED <<data, hpc, hresult, timer, timedOut, promise, interaction,
                                emitted, debugs, responses, micro, handleCalls>>
            [] MiddlewarePath(r) = "unauthorized" ->
                 /\ responses' = [responses EXCEPT ![i] =
                      Append(@, [status |-> 401, body |-> End(Undefined)])]
                 /\ cpc' = [cpc EXCEPT ![i] = "unauthorized"]
                 /\ UNCHANGED <<data, hpc, hresult, timer, timedOut, promise, interaction,
                                emitted, debugs, micro, handleCalls>>
            [] OTHER ->
                 /\ HandleSync(i, JSONparse(r.body))
                 /\ cpc' = [cpc EXCEPT ![i] = "awaitHandle"]
                 /\ UNCHANGED responses
  /\ UNCHANGED <<transport, callbacks, replies, followups, writes>>
  /\ UNCHANGED optVars

\* Line 227 after await this.handle(data); a rejection of handle propagates.
MiddlewareRespond ==
  /\ micro # <<>>
  /\ Head(micro).k = "callerResume"
  /\ transport[Head(micro).i] = "webhook"
  /\ LET i == Head(micro).i IN
       IF hpc[i] = "threw"
         THEN /\ cpc' = [cpc EXCEPT ![i] = "rejected"]
              /\ UNCHANGED responses
         ELSE /\ responses' = [responses EXCEPT ![i] =
                   Append(@, [status |-> 200, body |-> End(JSONstringify(hresult[i]))])]
              /\ cpc' = [cpc EXCEPT ![i] = "responded"]
  /\ micro' = Tail(micro)
  /\ UNCHANGED <<transport, req, data, hpc, hresult, timer, timedOut, promise, interaction,
                 emitted, debugs, callbacks, replies, followups, handleCalls, writes>>
  /\ UNCHANGED optVars

\* ---------------------------------------------------------- handleFromGateway
\* Line 232: the gateway hands over a parsed payload.
GatewayStart(i) ==
  /\ micro = <<>>
  /\ NextToArrive(i)
  /\ \E d \in Datas(i) : HandleSync(i, d)
  /\ transport' = [transport EXCEPT ![i] = "gateway"]
  /\ cpc' = [cpc EXCEPT ![i] = "awaitHandle"]
  /\ UNCHANGED <<req, responses, callbacks, replies, followups, writes>>
  /\ UNCHANGED optVars

\* Lines 234-237: POST the result to the interaction callback endpoint.
GatewayCallback ==
  /\ micro # <<>>
  /\ Head(micro).k = "callerResume"
  /\ transport[Head(micro).i] = "gateway"
  /\ LET i == Head(micro).i IN
       IF hpc[i] = "threw"
         THEN /\ cpc' = [cpc EXCEPT ![i] = "rejected"]
              /\ UNCHANGED callbacks
         ELSE /\ callbacks' = [callbacks EXCEPT ![i] =
                   Append(@, [id |-> data[i].id, token |-> data[i].token,
                              data |-> hresult[i], wait |-> TRUE])]
              /\ cpc' = [cpc EXCEPT ![i] = "posting"]
  /\ micro' = Tail(micro)
  /\ UNCHANGED <<transport, req, data, hpc, hresult, timer, timedOut, promise, interaction,
                 emitted, debugs, responses, replies, followups, handleCalls, writes>>
  /\ UNCHANGED optVars

\* The callback POST completes.
GatewayDone(i) ==
  /\ micro = <<>>
  /\ cpc[i] = "posting"
  /\ cpc' = [cpc EXCEPT ![i] = "done"]
  /\ UNCHANGED <<transport, req, data, hpc, hresult, timer, timedOut, promise, interaction,
                 emitted, debugs, responses, callbacks, replies, followups, micro, handleCalls,
                 writes>>
  /\ UNCHANGED optVars

\* ------------------------------------------------------ CommandInteraction.reply
\* Lines 133-142: build the message, start resolveFiles(), suspend.  Without files the
\* continuation is a pending microtask; with files it waits for I/O.
ReplyCall(i, f) ==
  /\ interaction[i] # NoInteraction
  /\ TotalReplies < MaxReplies
  /\ replies' = [replies EXCEPT ![i] =
       Append(@, [resolved |-> Resolved(Payload(i, Len(replies[i]) + 1), f), stage |-> IF f THEN "resolveFiles" ELSE "resume",
                  ret |-> "none", decided |-> FALSE, armedAtCall |-> timer[i].state = "armed"])]
  /\ micro' = IF f THEN micro ELSE Append(micro, ReplyResume(i, Len(replies[i]) + 1))
  /\ UNCHANGED <<cpc, transport, req, data, hpc, hresult, timer, timedOut, promise, interaction,
                 emitted, debugs, responses, callbacks, followups, handleCalls, writes>>
  /\ UNCHANGED optVars

\* The attachments of a reply have been fetched.
FilesResolved(i, n) ==
  /\ micro = <<>>
  /\ n \in 1..Len(replies[i])
  /\ replies[i][n].stage = "resolveFiles"
  /\ replies' = [replies EXCEPT ![i][n].stage = "resume"]
  /\ micro' = Append(micro, ReplyResume(i, n))
  /\ UNCHANGED <<cpc, transport, req, data, hpc, hresult, timer, timedOut, promise, interaction,
                 emitted, debugs, responses, callbacks, followups, handleCalls, writes>>
  /\ UNCHANGED optVars

\* A syncHandle.reply without the timedOut test.
SyncHandleReplyIgnoresTimeout(i, resolved) ==
  [ret |-> TRUE, promise |-> Resolve(promise[i], MessageEnvelope(resolved)),
   wrote |-> <<MessageEnvelope(resolved)>>]
\* A syncHandle.reply that also refuses once the promise is resolved.
SyncHandleReplyChecksPromise(i, resolved) ==
  IF timedOut[i] \/ promise[i].state = "resolved"
    THEN [ret |-> FALSE, promise |-> promise[i], wrote |-> <<>>]
    ELSE [ret |-> TRUE, promise |-> Resolve(promise[i], MessageEnvelope(resolved)),
          wrote |-> <<MessageEnvelope(resolved)>>]
\* A syncHandle.reply that resolves and then reports failure.
SyncHandleReplyReturnsFalse(i, resolved) ==
  IF timedOut[i]
    THEN [ret |-> FALSE, promise |-> promise[i], wrote |-> <<>>]
    ELSE [ret |-> FALSE, promise |-> Resolve(promise[i], MessageEnvelope(resolved)),
          wrote |-> <<MessageEnvelope(resolved)>>]
\* syncHandle.reply(resolved), lines 163-172: its return value, directPromise after
\* it, and the values it passed to resolve.
SyncHandleReply(i, resolved) ==
  IF timedOut[i]
    THEN [ret |-> FALSE, promise |-> promise[i], wrote |-> <<>>]
    ELSE [ret |-> TRUE, promise |-> Resolve(promise[i], MessageEnvelope(resolved)),
          wrote |-> <<MessageEnvelope(resolved)>>]

\* A followup POST with the two path arguments in the wrong order.
FollowupPostSwappedKey(i, n, resolved) ==
  [applicationID |-> interaction[i].token, token |-> interaction[i].applicationID,
   auth |-> FALSE, data |-> resolved.data, files |-> resolved.files, wait |-> TRUE, n |-> n]
\* Lines 145-150: the followup POST to webhooks(this.applicationID, this.token).
FollowupPost(i, n, resolved) ==
  [applicationID |-> interaction[i].applicationID, token |-> interaction[i].token,
   auth |-> FALSE, data |-> resolved.data, files |-> resolved.files, wait |-> TRUE, n |-> n]

\* Lines 144-151: call syncHandle.reply; when it returns false, POST the followup.
ReplyResumes ==
  /\ micro # <<>>
  /\ Head(micro).k = "replyResume"
  /\ LET i == Head(micro).i
         n == Head(micro).n
         resolved == replies[i][n].resolved
         h == interaction[i].syncHandle
         r == SyncHandleReply(h, resolved)
     IN
       /\ promise' = [promise EXCEPT ![h] = r.promise]
       /\ writes' = [writes EXCEPT ![h] = @ \o Writes("reply", n, r.wrote)]
       /\ replies' = [replies EXCEPT ![i][n] =
            [@ EXCEPT !.ret = IF r.ret THEN "true" ELSE "false",
                      !.decided = Settles(promise[h], r.promise),
                      !.stage = IF r.ret THEN "done" ELSE "posting"]]
       /\ followups' = [followups EXCEPT ![i] =
            IF r.ret THEN @ ELSE Append(@, FollowupPost(i, n, resolved))]
       /\ micro' = IF Settles(promise[h], r.promise) /\ hpc[h] = "awaiting"
                     THEN Append(Tail(micro), HandleResume(h)) ELSE Tail(micro)
  /\ UNCHANGED <<cpc, transport, req, data, hpc, hresult, timer, timedOut, interaction,
                 emitted, debugs, responses, callbacks, handleCalls>>
  /\ UNCHANGED optVars

\* The followup POST completes and reply() returns.
FollowupDone(i, n) ==
  /\ micro = <<>>
  /\ n \in 1..Len(replies[i])
  /\ replies[i][n].stage = "posting"
  /\ replies' = [replies EXCEPT ![i][n].stage = "done"]
  /\ UNCHANGED <<cpc, transport, req, data, hpc, hresult, timer, timedOut, promise, interaction,
                 emitted, debugs, responses, callbacks, followups, micro, handleCalls, writes>>
  /\ UNCHANGED optVars

Next ==
  \/ \E i \in Ids : MiddlewareStart(i)
  \/ \E i \in Ids : MiddlewareBody(i)
  \/ MiddlewareRespond
  \/ \E i \in Ids : GatewayStart(i)
  \/ GatewayCallback
  \/ \E i \in Ids : GatewayDone(i)
  \/ \E i \in Ids : TimerFire(i)
  \/ HandleReturn
  \/ \E i \in Ids, f \in BOOLEAN : ReplyCall(i, f)
  \/ \E i \in Ids, n \in 1..MaxReplies : FilesResolved(i, n)
  \/ ReplyResumes
  \/ \E i \in Ids, n \in 1..MaxReplies : FollowupDone(i, n)

Spec == Init /\ [][Next]_vars

OptionSpec == InitOptions /\ [][Construct]_optVars

\* The event loop runs every queued microtask and every armed timer's callback.
LiveSpec ==
  /\ Spec
  /\ WF_vars(HandleReturn)
  /\ WF_vars(MiddlewareRespond)
  /\ WF_vars(GatewayCallback)
  /\ WF_vars(ReplyResumes)
  /\ \A i \in Ids : WF_vars(TimerFire(i))

\* ------------------------------------------------------------------ claims
Executed(i, n) == replies[i][n].ret # "none"
FollowupsOf(i, n) == { k \in 1..Len(followups[i]) : followups[i][k].n = n }
IsCommand(i) == data[i] # NoData /\ data[i].type = APPLICATION_COMMAND
FirstWriter(i) == Head(writes[i])

\* C1: the race of a command interaction is resolved at most once: directPromise holds
\* the value of the first call of its resolve function (timer or reply), whatever calls
\* follow, and that is the envelope handle returns.
C1_ResolvedOnce ==
  \A i \in Ids : writes[i] # <<>> =>
    /\ promise[i] = [state |-> "resolved", value |-> FirstWriter(i).value]
    /\ hpc[i] = "returned" => hresult[i] = FirstWriter(i).value
\* A race written three times (two replies and the timer) whose handle has returned.
C1_Witness ==
  \E i \in Ids : Len(writes[i]) = 3 /\ hpc[i] = "returned" /\ FirstWriter(i).by = "reply"

\* C2: syncHandle.reply returns true exactly when that call decided the race; a second
\* call never returns true.
C2_TrueIffDecided ==
  \A i \in Ids : \A n \in 1..Len(replies[i]) :
    Executed(i, n) => (replies[i][n].ret = "true" <=> replies[i][n].decided)

\* C3: a reply() that did not decide the race is delivered by exactly one followup POST
\* carrying its payload.
C3_LaterRepliesFollowUp ==
  \A i \in Ids : \A n \in 1..Len(replies[i]) :
    (replies[i][n].stage = "done" /\ ~replies[i][n].decided) =>
      /\ Cardinality(FollowupsOf(i, n)) = 1
      /\ \A k \in FollowupsOf(i, n) : followups[i][k].data = replies[i][n].resolved.data

\* C4: when the first call of syncHandle.reply on an interaction runs before the timer
\* fires, handle returns {type: CHANNEL_MESSAGE_WITH_SOURCE, data: P} for that call's
\* payload P, the call returns true and no followup POST is made for it.
C4_ImmediateReply ==
  \A i \in Ids : (writes[i] # <<>> /\ FirstWriter(i).by = "reply") =>
    LET n == FirstWriter(i).n IN
      /\ replies[i][n].ret = "true"
      /\ FollowupsOf(i, n) = {}
      /\ hpc[i] = "returned" =>
           hresult[i] = [type |-> CHANNEL_MESSAGE_WITH_SOURCE, data |-> replies[i][n].resolved.data]
\* A reply won the race, handle returned, and the timer fired afterwards.
C4_Witness ==
  \E i \in Ids : /\ writes[i] # <<>> /\ FirstWriter(i).by = "reply"
                 /\ hpc[i] = "returned" /\ timer[i].state = "fired"
                 /\ hresult[i].type = CHANNEL_MESSAGE_WITH_SOURCE

\* C5: when the timer fires before any reply reaches syncHandle.reply, handle has
\* returned {type: DEFERRED_CHANNEL_MESSAGE_WITH_SOURCE} without data by the time a reply
\* gets that far, the reply returns false and exactly one followup POST is made for it,
\* with its payload, this.applicationID, this.token and wait = true.
C5_DeferredThenFollowup ==
  \A i \in Ids : (writes[i] # <<>> /\ FirstWriter(i).by = "timer") =>
    \A n \in 1..Len(replies[i]) : Executed(i, n) =>
      /\ hpc[i] = "returned"
      /\ hresult[i] = DeferredEnvelope
      /\ "data" \notin DOMAIN hresult[i]
      /\ replies[i][n].ret = "false"
      /\ Cardinality(FollowupsOf(i, n)) = 1
      /\ \A k \in FollowupsOf(i, n) :
           /\ followups[i][k].data = replies[i][n].resolved.data
           /\ followups[i][k].applicationID = interaction[i].applicationID
           /\ followups[i][k].token = interaction[i].token
           /\ followups[i][k].wait
\* A reply made after the timer fired has completed through its followup POST.
C5_Witness ==
  \E i \in Ids : /\ writes[i] # <<>> /\ FirstWriter(i).by = "timer"
                 /\ Len(replies[i]) = 1 /\ replies[i][1].stage = "done"
                 /\ Len(followups[i]) = 1

\* C6: once the CommandInteraction is constructed, handle eventually returns the one
\* envelope of the race, and it is the deferred one without data when the timer was
\* the first writer.
C6_EventuallyReturns ==
  \A i \in Ids :
    [](interaction[i] # NoInteraction =>
         <>( /\ hpc[i] = "returned"
             /\ hresult[i] = promise[i].value
             /\ hresult[i] # Undefined
             /\ FirstWriter(i).by = "timer" => hresult[i] = DeferredEnvelope ))
\* handle returned the deferred envelope for an interaction nobody replied to.
C6_Witness ==
  \E i \in Ids : /\ interaction[i] # NoInteraction /\ replies[i] = <<>>
                 /\ hpc[i] = "returned" /\ hresult[i] = DeferredEnvelope

\* C7: a webhook request whose signature does not validate over timestamp || body is
\* answered 401 with an empty body and reaches neither handle nor any handler.
Authenticated(i) ==
  Verify(req[i].signature, Concat(req[i].timestamp, req[i].body), PublicKey)
C7_Unauthorized ==
  \A i \in Ids : (req[i] # NoRequest /\ ~Authenticated(i)) =>
    /\ responses[i] = <<[status |-> 401, body |-> EmptyBody]>>
    /\ handleCalls[i] = 0
    /\ interaction[i] = NoInteraction
    /\ emitted[i] = 0

\* C8: for a PING payload handle returns {type: PONG} and does nothing else: no timer,
\* no directPromise, no interaction, no event, no reply and no followup, whatever the
\* other interaction is doing.
C8_Ping ==
  \A i \in Ids : (data[i] # NoData /\ data[i].type = PING) =>
    /\ hpc[i] = "returned"
    /\ hresult[i] = PongEnvelope
    /\ timer[i] = NoTimer
    /\ ~timedOut[i]
    /\ promise[i] = PendingPromise
    /\ writes[i] = <<>>
    /\ interaction[i] = NoInteraction
    /\ emitted[i] = 0
    /\ debugs[i] = 0
    /\ replies[i] = <<>>
    /\ followups[i] = <<>>
\* A PING was handled while the other interaction had timed out and sent a followup.
C8_Witness ==
  \E i \in Ids : \E j \in Ids \ {i} :
    /\ data[i] # NoData /\ data[i].type = PING /\ hpc[i] = "returned"
    /\ timedOut[j] /\ followups[j] # <<>>

\* C9: for a payload that is neither PING nor APPLICATION_COMMAND handle emits one debug
\* event and returns undefined without throwing: no timer, no interaction, no
\* interactionCreate event.
C9_UnknownType ==
  \A i \in Ids : (data[i] # NoData /\ data[i].type \notin {PING, APPLICATION_COMMAND}) =>
    /\ debugs[i] = 1
    /\ hpc[i] = "returned"
    /\ hresult[i] = Undefined
    /\ timer[i] = NoTimer
    /\ interaction[i] = NoInteraction
    /\ emitted[i] = 0
\* A payload of unknown type has been handled and its caller has resumed.
C9_Witness ==
  \E i \in Ids : /\ data[i] # NoData /\ data[i].type = UNKNOWN_TYPE
                 /\ cpc[i] \in {"responded", "posting"}

\* C10: a webhook request that passes authentication and whose body parses is answered
\* exactly once, with status 200 and the JSON text of the envelope handle returned.
IsEnvelope(v) == "type" \in DOMAIN v /\ v.type \in {PONG, CHANNEL_MESSAGE_WITH_SOURCE, DEFERRED_CHANNEL_MESSAGE_WITH_SOURCE}
C10_AnsweredWithEnvelope ==
  \A i \in Ids :
    (req[i] # NoRequest /\ Authenticated(i) /\ JSONParses(req[i].body)
       /\ cpc[i] = "responded") =>
      /\ Len(responses[i]) = 1
      /\ responses[i][1].status = 200
      /\ IsEnvelope(hresult[i])
      /\ responses[i][1].body = JSONstringify(hresult[i])

\* C11: handleFromGateway issues exactly one callback POST per interaction, after handle
\* has returned, to interactions(data.id, data.token), with wait = true and the value
\* handle returned as its data.
C11_OneCallback ==
  \A i \in Ids : (transport[i] = "gateway" /\ cpc[i] \in {"posting", "done", "rejected"}) =>
    /\ hpc[i] = "returned"
    /\ Len(callbacks[i]) = 1
    /\ callbacks[i][1] = [id |-> data[i].id, token |-> data[i].token,
                          data |-> hresult[i], wait |-> TRUE]

\* C12: an authenticated webhook request whose body is not JSON fails as a whole: the
\* middleware throws, handle is not called, no timer is armed, no event is emitted and
\* no response is sent.
C12_ParseFailure ==
  \A i \in Ids : (req[i] # NoRequest /\ Authenticated(i) /\ ~JSONParses(req[i].body)) =>
    /\ cpc[i] = "rejected"
    /\ handleCalls[i] = 0
    /\ data[i] = NoData
    /\ timer[i] = NoTimer
    /\ interaction[i] = NoInteraction
    /\ emitted[i] = 0
    /\ debugs[i] = 0
    /\ responses[i] = <<>>
\* A correctly signed request with a malformed body has been processed.
C12_Witness ==
  \E i \in Ids : /\ req[i] # NoRequest /\ Authenticated(i) /\ req[i].body = NotJSON
                 /\ cpc[i] = "rejected"

\* C16: the timedOut test and the resolution in syncHandle.reply are one step with respect
\* to the timer callback: when the envelope is the deferred one, no syncHandle.reply
\* call on that interaction has returned true.
C16_DeferredExcludesTrue ==
  \A i \in Ids : promise[i].value = DeferredEnvelope =>
    \A n \in 1..Len(replies[i]) : replies[i][n].ret # "true"
\* Two replies have run syncHandle.reply on an interaction whose envelope is deferred.
C16_Witness ==
  \E i \in Ids : /\ promise[i].value = DeferredEnvelope
                 /\ Len(replies[i]) = 2
                 /\ \A n \in 1..2 : replies[i][n].ret = "false"

\* C17 as claimed: timedOut implies that the race is resolved to the deferred envelope,
\* and syncHandle.reply returns false only on such an interaction.
C17_TimedOutImpliesDeferred ==
  \A i \in Ids :
    /\ timedOut[i] => promise[i].value = DeferredEnvelope
    /\ \A n \in 1..Len(replies[i]) :
         replies[i][n].ret = "false" => promise[i].value = DeferredEnvelope
\* C17 as amended: timedOut is true exactly when the timer has fired, whether or not the
\* race was still pending; then the race is resolved, to the value of its first writer
\* (the deferred envelope, or the envelope of an earlier reply, which the timer leaves
\* unchanged); syncHandle.reply returns false only once the timer has fired.
C17_TimedOutIffTimerFired ==
  \A i \in Ids :
    /\ timedOut[i] <=> timer[i].state = "fired"
    /\ timedOut[i] =>
         /\ promise[i].state = "resolved"
         /\ promise[i].value = FirstWriter(i).value
         /\ FirstWriter(i).by = "timer" <=> promise[i].value = DeferredEnvelope
    /\ \A n \in 1..Len(replies[i]) : replies[i][n].ret = "false" => timedOut[i]
\* The timer fired after a reply had won, and a later reply was refused.
C17_Witness ==
  \E i \in Ids : /\ timedOut[i]
                 /\ promise[i].value # DeferredEnvelope
                 /\ \E n \in 1..Len(replies[i]) : replies[i][n].ret = "false"

\* C18: a reply() invoked while the timer was armed, whose syncHandle.reply ran only after
\* the timer had resolved the race, does not win: handle has returned the deferred
\* envelope and the reply is delivered by exactly one followup POST with its payload.
C18_DecidedAtExecution ==
  \A i \in Ids : \A n \in 1..Len(replies[i]) :
    (replies[i][n].armedAtCall /\ Executed(i, n) /\ FirstWriter(i).by = "timer") =>
      /\ replies[i][n].ret = "false"
      /\ hpc[i] = "returned" /\ hresult[i] = DeferredEnvelope
      /\ Cardinality(FollowupsOf(i, n)) = 1
      /\ \A k \in FollowupsOf(i, n) : followups[i][k].data = replies[i][n].resolved.data
\* Such a reply has completed.
C18_Witness ==
  \E i \in Ids : \E n \in 1..Len(replies[i]) :
    /\ replies[i][n].armedAtCall /\ replies[i][n].stage = "done"
    /\ writes[i] # <<>> /\ FirstWriter(i).by = "timer"

\* C19: a timer firing or a reply() step on one interaction leaves the race, the timedOut
\* flag, the timer, the returned envelope and the followup POSTs of the other unchanged.
C19_Independent ==
  [][\A a \in Ids : \A b \in Ids \ {a} :
       ((timer[a].state = "armed" /\ timer'[a] # timer[a]) \/ replies'[a] # replies[a]) =>
         /\ promise'[b] = promise[b]
         /\ timedOut'[b] = timedOut[b]
         /\ timer'[b] = timer[b]
         /\ hresult'[b] = hresult[b]
         /\ followups'[b] = followups[b]
         /\ writes'[b] = writes[b]]_vars
\* Two command interactions with different outcomes: one deferred with a followup, the
\* other answered by its reply before its timer.
C19_Witness ==
  \E a \in Ids : \E b \in Ids \ {a} :
    /\ timedOut[a] /\ promise[a].value = DeferredEnvelope /\ followups[a] # <<>>
    /\ ~timedOut[b] /\ promise[b].state = "resolved" /\ followups[b] = <<>>

\* C20: an interaction has followup POSTs only if its timedOut flag is true, and never
\* more of them than reply() calls.
C20_FollowupsNeedTimeout ==
  \A i \in Ids :
    /\ Len(followups[i]) > 0 => timedOut[i]
    /\ Len(followups[i]) <= Len(replies[i])
\* Every reply() of an interaction went to a followup POST.
C20_Witness ==
  \E i \in Ids : Len(followups[i]) = 2 /\ Len(replies[i]) = 2

\* ------------------------------------------------- claims on the option resolver
Ran == ctorIn # NoInput /\ ctorOut # NotRun
IsContainer(o) == o.type \in {TypeCode("SUB_COMMAND"), TypeCode("SUB_COMMAND_GROUP")}
IsScalar(o) == o.type \in {TypeCode("STRING"), TypeCode("INTEGER"), TypeCode("BOOLEAN")}
RECURSIVE ContainersAndScalars(_)
ContainersAndScalars(o) ==
  \/ IsScalar(o)
  \/ IsContainer(o) /\ \A k \in 1..Len(o.options) : ContainersAndScalars(o.options[k])
RECURSIVE Depth(_)
Depth(n) ==
  IF "options" \in DOMAIN n
    THEN 1 + (CHOOSE m \in 0..3 :
                /\ \A k \in 1..Len(n.options) : Depth(n.options[k]) <= m
                /\ m = 0 \/ \E k \in 1..Len(n.options) : Depth(n.options[k]) = m)
    ELSE 1
RECURSIVE Preserved(_, _)
Preserved(raw, res) ==
  /\ res.name = raw.name
  /\ IF IsContainer(raw)
       THEN /\ "options" \in DOMAIN res
            /\ Len(res.options) = Len(raw.options)
            /\ \A k \in 1..Len(raw.options) : Preserved(raw.options[k], res.options[k])
       ELSE /\ "options" \notin DOMAIN res
            /\ "value" \in DOMAIN res
            /\ res.value = raw.value

\* C13: for a raw tree of subcommand groups, subcommands and scalars the resolved tree
\* has the same depth, the same number of children at every container, the same child
\* order and names, and every scalar's value unchanged.
C13_StructurePreserved ==
  (Ran /\ ctorIn.d.options # Absent) =>
    LET raw == ctorIn.d.options.list IN
      (\A k \in 1..Len(raw) : ContainersAndScalars(raw[k])) =>
        /\ ~ctorOut.threw
        /\ Len(ctorOut.value) = Len(raw)
        /\ \A k \in 1..Len(raw) :
             /\ Preserved(raw[k], ctorOut.value[k])
             /\ Depth(ctorOut.value[k]) = Depth(raw[k])
\* A group of two subcommands, the first with two scalars, has been resolved.
C13_Witness ==
  /\ Ran /\ ctorIn.d.options # Absent /\ ~ctorOut.threw
  /\ \E k \in 1..Len(ctorOut.value) :
       /\ ctorOut.value[k].type = "SUB_COMMAND_GROUP"
       /\ Len(ctorOut.value[k].options) = 2
       /\ Len(ctorOut.value[k].options[1].options) = 2
       /\ ctorOut.value[k].options[1].options[1] # ctorOut.value[k].options[1].options[2]
       /\ Depth(ctorOut.value[k]) = 3

IsUserOption(o) == o.type = TypeCode("USER")
BothPayloads(d, o) ==
  /\ d.resolved # Absent
  /\ d.resolved.users # Absent /\ Lookup(d.resolved.users, o.value) # Undefined
  /\ d.resolved.members # Absent /\ Lookup(d.resolved.members, o.value) # Undefined

\* C14 as claimed: a USER option with both a user and a member payload yields a node
\* whose member has the node's user as its user.
C14_MemberUser ==
  (Ran /\ ctorIn.d.options # Absent) =>
    \A k \in 1..Len(ctorIn.d.options.list) :
      LET o == ctorIn.d.options.list[k] IN
        (IsUserOption(o) /\ BothPayloads(ctorIn.d, o)) =>
          /\ ~ctorOut.threw
          /\ ctorOut.value[k].member # Null
          /\ ctorOut.value[k].member.user = ctorOut.value[k].user
\* C14 as amended: with a guild context the member's user equals the node's user; without
\* one the node's member is null.
C14_MemberUserInGuild ==
  (Ran /\ ctorIn.d.options # Absent) =>
    \A k \in 1..Len(ctorIn.d.options.list) :
      LET o == ctorIn.d.options.list[k] IN
        (IsUserOption(o) /\ BothPayloads(ctorIn.d, o)) =>
          /\ ~ctorOut.threw
          /\ IF ctorIn.c.guild
               THEN /\ ctorOut.value[k].member # Null
                    /\ ctorOut.value[k].member.user = ctorOut.value[k].user
                    /\ ctorOut.value[k].user.raw = RawUser
               ELSE ctorOut.value[k].member = Null
\* A USER option with both payloads has been resolved in a guild.
C14_Witness ==
  /\ Ran /\ ctorIn.d.options # Absent /\ ctorIn.c.guild /\ ~ctorOut.threw
  /\ \E k \in 1..Len(ctorIn.d.options.list) :
       /\ IsUserOption(ctorIn.d.options.list[k])
       /\ BothPayloads(ctorIn.d, ctorIn.d.options.list[k])
       /\ ctorOut.value[k].member # Null

\* C15: a reference option whose payload is missing from data.data.resolved (no entry,
\* no sub-table, or no table) does not make the constructor fail.
TableOf(o) ==
  CASE o.type = TypeCode("USER") -> "users"
    [] o.type = TypeCode("CHANNEL") -> "channels"
    [] o.type = TypeCode("ROLE") -> "roles"
MissingPayload(d, o) ==
  \/ d.resolved = Absent
  \/ d.resolved[TableOf(o)] = Absent
  \/ Lookup(d.resolved[TableOf(o)], o.value) = Undefined
C15_MissingPayloadDegrades ==
  (Ran /\ ctorIn.d.options # Absent) =>
    \A k \in 1..Len(ctorIn.d.options.list) :
      LET o == ctorIn.d.options.list[k] IN
        (o \in References /\ MissingPayload(ctorIn.d, o)) => ~ctorOut.threw

====
